---- MODULE Spec2Model ----
(***************************************************************************)
(* A model of src/network.ts: the proxy pool (proxyList, currentProxyIndex, *)
(* lastProxyFetchTime, isFetchingProxies), the axios transport with its     *)
(* rotate-on-error response interceptor, and the Puppeteer render queue.    *)
(*                                                                         *)
(* Node runs the module on one event loop, so every action below is one    *)
(* run-to-completion step: the synchronous code from the completion of an  *)
(* awaited I/O operation (or from a call of fetchNetwork) up to the next    *)
(* awaited I/O operation.                                                  *)
(***************************************************************************)
EXTENDS Integers, Sequences, FiniteSets, TLC

(* ------------------------------ bounds --------------------------------- *)
\* Number of concurrent callers of fetchNetwork with mode "axios".
NumClients == 2
\* Number of concurrent callers of fetchNetwork with mode "puppeteer".
NumRenderers == 4
\* Longest proxy list the proxy source serves.
MaxLen == 2
\* Deepest nesting of interceptor calls one fetchNetwork call is followed to.
MaxDepth == 3
\* Number of times the clock jumps past the refresh interval.
MaxTicks == 1

(* ------------------------- program constants --------------------------- *)
MAX_PUPPETEER_REQUESTS == 2
proxyFetchInterval == 60 * 60 * 1000

Clients == 1..NumClients
Renderers == (NumClients + 1)..(NumClients + NumRenderers)
Callers == Clients \cup Renderers

\* JavaScript's NaN, the value of (i + 1) % 0.  NaN is not equal to any index.
NaN == -1
\* JavaScript's undefined, the value of proxyList[i] for i outside the list.
Undefined == <<>>
\* The first value Date.now() returns: lastProxyFetchTime = 0 is then stale.
StartTime == proxyFetchInterval + 1

VARIABLES
    proxyList,                \* sequence of proxies, each <<host, port>>
    currentProxyIndex,        \* 0-based index into proxyList, or NaN
    lastProxyFetchTime,       \* Date.now() of the last successful refresh
    isFetchingProxies,        \* the refresh lock
    axiosInstance,            \* the module-level axios instance
    now,                      \* Date.now()
    puppeteerQueue,           \* callers whose render closure is queued
    activePuppeteerRequests,  \* the in-flight render counter
    pc,                       \* where each caller's fetchNetwork call is
    stack,                    \* each caller's pending axios requests
    result,                   \* "none", "ok" or the error code returned
    pending,                  \* how a render's try block ended, during finally
    callbacks,                \* resolve / reject calls of the render promise
    before,                   \* tasks that arrived before this one and still wait
    behind,                   \* tasks that waited when this one was started
    joined                    \* what a refresh waiter is waiting for

poolVars == <<proxyList, currentProxyIndex, lastProxyFetchTime, isFetchingProxies>>
queueVars == <<puppeteerQueue, activePuppeteerRequests>>
axiosVars == <<stack>>
renderVars == <<pending, callbacks, before, behind>>
vars == <<proxyList, currentProxyIndex, lastProxyFetchTime, isFetchingProxies,
          axiosInstance, now, puppeteerQueue, activePuppeteerRequests, pc,
          stack, result, pending,
          callbacks, before, behind, joined>>

(* --------------------------- axios instances --------------------------- *)
\* A bug: the instance without proxy gets the rotate-on-error interceptor too.
PlainInstanceIntercepted == [direct |-> TRUE, proxy |-> Undefined, icpt |-> TRUE]
\* axios.create({timeout}) and axios.create({}): no proxy agent, no interceptor.
PlainInstance == [direct |-> TRUE, proxy |-> Undefined, icpt |-> FALSE]
\* An instance built by setupAxiosInstanceWithProxy for proxyList[i].
ProxiedInstance(p) == [direct |-> FALSE, proxy |-> p, icpt |-> TRUE]

\* proxyList[i] in JavaScript (0-based; undefined outside the list and for NaN).
ProxyAt(list, i) == IF i + 1 \in DOMAIN list THEN list[i + 1] ELSE Undefined

(* ------------------------------ error codes ---------------------------- *)
NoCode == "undefined"
\* The codes the interceptor lists, besides a missing code.
TransientCodes == {"ECONNABORTED", "ECONNRESET", "ETIMEDOUT", "ERR_BAD_REQUEST"}
\* The error codes requests fail with here: a listed code, a missing code
\* and a code that is not listed.
ErrorCodes == {"ETIMEDOUT", NoCode, "ERR_BAD_RESPONSE"}

\* A bug: `!=` for `==` in the test of a missing code.
IsTransientUnlessMissing(code) == code \in TransientCodes \/ code # NoCode
\* The interceptor's test of error.code.
IsTransient(code) == code \in TransientCodes \/ code = NoCode

(* ------------------------------ proxy pool ----------------------------- *)
\* One line of the proxy source is a sequence of colon-separated fields; the
\* empty line has no field.  split(':').slice(0, 2).join(':')
ParseLine(line) == SubSeq(line, 1, IF Len(line) < 2 THEN Len(line) ELSE 2)
Truthy(p) == p # <<>>
\* response.data.split('\n').map(...).filter(Boolean)
ParseProxyData(data) == SelectSeq([i \in DOMAIN data |-> ParseLine(data[i])], Truthy)

\* What the proxy source serves: n proxies (every other one with a third
\* field) followed by an empty last line.
Payload(n) ==
    [i \in 1..(n + 1) |->
        IF i > n THEN <<>> ELSE IF i % 2 = 1 THEN <<i, 8080, 1>> ELSE <<i, 8080>>]
ProxySourceData == {Payload(n) : n \in 0..MaxLen}

\* The condition of refreshProxyListIfNeeded.
NeedsRefresh ==
    now - lastProxyFetchTime > proxyFetchInterval \/ Len(proxyList) = 0

\* (currentProxyIndex + 1) % proxyList.length
RotateIndex(i, len) == IF i = NaN \/ len = 0 THEN NaN ELSE (i + 1) % len

(* ----------------------------- render queue ---------------------------- *)
Range(q) == {q[i] : i \in DOMAIN q}

\* A bug: the ceiling test lets one request too many through.
QueueFullOffByOne(active) == active > MAX_PUPPETEER_REQUESTS
\* A bug: a request is held back as soon as one other is active.
QueueFullEarly(active) == active >= MAX_PUPPETEER_REQUESTS - 1
QueueFull(active) == active >= MAX_PUPPETEER_REQUESTS

\* A bug: the queue is used as a stack (pop instead of shift).
ShiftLast(q) == [item |-> q[Len(q)], rest |-> SubSeq(q, 1, Len(q) - 1)]
\* puppeteerQueue.shift()
Shift(q) == [item |-> Head(q), rest |-> Tail(q)]

\* One call of processPuppeteerQueue up to its await: the queue and counter
\* it leaves, and the task it started (if any).
processPuppeteerQueue(q, active) ==
    IF QueueFull(active) \/ Len(q) = 0
    THEN [queue |-> q, active |-> active, started |-> {}]
    ELSE [queue |-> Shift(q).rest, active |-> active + 1,
          started |-> {Shift(q).item}]

\* A bug: the recursive call after the decrement is missing.
afterRequestNoRecursion(q, active) == [queue |-> q, active |-> active - 1, started |-> {}]
\* processPuppeteerQueue after its await: the decrement and the recursive call.
afterRequest(q, active) == processPuppeteerQueue(q, active - 1)

\* A bug: the closure has no catch, so a failing render calls neither.
SettledNoCatch(cb, ok) == IF ok THEN [cb EXCEPT !.resolved = @ + 1] ELSE cb
\* resolve(content) / reject(error) of the promise of queuePuppeteerRequest.
Settled(cb, ok) ==
    IF ok THEN [cb EXCEPT !.resolved = @ + 1] ELSE [cb EXCEPT !.rejected = @ + 1]

NoCallbacks == [resolved |-> 0, rejected |-> 0]
NotJoined == [st |-> "none", list |-> <<>>]

Init ==
    /\ proxyList = <<>>
    /\ currentProxyIndex = 0
    /\ lastProxyFetchTime = 0
    /\ isFetchingProxies = FALSE
    /\ axiosInstance = PlainInstance
    /\ now = StartTime
    /\ puppeteerQueue = <<>>
    /\ activePuppeteerRequests = 0
    /\ pc = [c \in Callers |-> "idle"]
    /\ stack = [c \in Callers |-> <<>>]
    /\ result = [c \in Callers |-> "none"]
    /\ pending = [c \in Callers |-> "none"]
    /\ callbacks = [c \in Callers |-> NoCallbacks]
    /\ before = [c \in Callers |-> {}]
    /\ behind = [c \in Callers |-> {}]
    /\ joined = [c \in Callers |-> NotJoined]

(* --------------------------- fetchNetwork ------------------------------ *)
\* setupAxiosInstanceWithProxy up to its await: the instance it builds for
\* the proxy at index i of list, which it stores in axiosInstance and sends
\* the validation request through.
SetupInstance(list, i) == ProxiedInstance(ProxyAt(list, i))
\* A request in flight: what it asks for, the instance it was sent through,
\* and whether it is the interceptor's replay of a failed request.
Frame(req, via) == [req |-> req, via |-> via, replay |-> FALSE]
Replay(req, via) == [req |-> req, via |-> via, replay |-> TRUE]

\* The callers whose render task waits in the queue.
Waiting == {d \in Callers : pc[d] = "queued"}

\* What a call r of processPuppeteerQueue does to the tasks: the task it
\* started (if any) runs fetchWithPuppeteer up to `await puppeteer.launch`.
\* `arrived` is the caller that was queued in this step, `done` the one whose
\* task ended in it (either may be no caller: {}).
Process(r, arrived, done) ==
    /\ puppeteerQueue' = r.queue
    /\ activePuppeteerRequests' = r.active
    /\ pc' = [d \in Callers |->
                IF d \in r.started THEN "launch"
                ELSE IF d \in arrived THEN "queued"
                ELSE IF d \in done THEN "returned" ELSE pc[d]]
    /\ before' = [d \in Callers |->
                    (IF d \in arrived THEN Waiting ELSE before[d]) \ r.started]
    /\ behind' = [d \in Callers |->
                    IF d \in r.started THEN (Waiting \cup arrived) \ {d}
                    ELSE IF d \in done THEN {} ELSE behind[d]]

\* queuePuppeteerRequest: push the closure, then processPuppeteerQueue.
QueuePuppeteerRequest(c) ==
    /\ Process(processPuppeteerQueue(Append(puppeteerQueue, c), activePuppeteerRequests),
               {c}, {})
    /\ UNCHANGED <<poolVars, axiosInstance, stack, joined>>

\* getAxiosInstance(false), then the url request through the new instance.
FetchDirect(c) ==
    /\ stack' = [stack EXCEPT ![c] = <<Frame("url", PlainInstance)>>]
    /\ pc' = [pc EXCEPT ![c] = "request"]
    /\ UNCHANGED <<poolVars, axiosInstance, queueVars, before, behind, joined>>

\* getAxiosInstance(true): refreshProxyListIfNeeded, fetchProxyList up to its
\* await, or setupAxiosInstanceWithProxy up to its await when the list is fresh.
FetchProxied(c) ==
    /\ UNCHANGED <<proxyList, currentProxyIndex, lastProxyFetchTime, queueVars, before, behind>>
    /\ IF NeedsRefresh
       THEN IF isFetchingProxies
            THEN /\ pc' = [pc EXCEPT ![c] = "refreshWait"]
                 /\ joined' = [joined EXCEPT ![c] = [st |-> "pending", list |-> <<>>]]
                 /\ UNCHANGED <<isFetchingProxies, axiosInstance, stack>>
            ELSE /\ isFetchingProxies' = TRUE
                 /\ pc' = [pc EXCEPT ![c] = "proxyFetch"]
                 /\ UNCHANGED <<axiosInstance, stack, joined>>
       ELSE /\ axiosInstance' = SetupInstance(proxyList, currentProxyIndex)
            /\ stack' = [stack EXCEPT ![c] = <<Frame("ipify", axiosInstance')>>]
            /\ pc' = [pc EXCEPT ![c] = "request"]
            /\ UNCHANGED <<isFetchingProxies, joined>>

FetchNetwork(c, mode, useProxy) ==
    /\ pc[c] = "idle"
    /\ IF mode = "puppeteer" THEN QueuePuppeteerRequest(c)
       ELSE IF useProxy THEN FetchProxied(c) ELSE FetchDirect(c)
    /\ UNCHANGED <<now, result, pending, callbacks>>

(* ------------------------ fetchWithPuppeteer --------------------------- *)
\* fetchWithPuppeteer returns (ok) or throws: the closure of
\* queuePuppeteerRequest calls resolve or reject and ends, and
\* processPuppeteerQueue resumes after `await puppeteerRequest()`.
Settle(c, ok) ==
    /\ callbacks' = [callbacks EXCEPT ![c] = Settled(@, ok)]
    /\ result' = [result EXCEPT ![c] = IF ok THEN "ok" ELSE "error"]
    /\ pending' = [pending EXCEPT ![c] = "none"]
    /\ Process(afterRequest(puppeteerQueue, activePuppeteerRequests), {}, {c})

\* An awaited step of fetchWithPuppeteer is followed by the next one.
Advance(c, next, outcome) ==
    /\ pc' = [pc EXCEPT ![c] = next]
    /\ pending' = [pending EXCEPT ![c] = outcome]
    /\ UNCHANGED <<queueVars, callbacks, result, before, behind>>

RenderFrame == <<poolVars, axiosInstance, now, axiosVars, joined>>

\* puppeteer.launch completes.
Launch(c, ok) ==
    /\ pc[c] = "launch"
    /\ IF ok THEN Advance(c, "newPage", "none") ELSE Settle(c, FALSE)
    /\ UNCHANGED RenderFrame

\* browser.newPage, page.setUserAgent and page.setRequestInterception complete.
NewPage(c, ok) ==
    /\ pc[c] = "newPage"
    /\ IF ok THEN Advance(c, "goto", "none") ELSE Settle(c, FALSE)
    /\ UNCHANGED RenderFrame

\* page.goto completes; on failure the catch rethrows and finally runs.
Goto(c, ok) ==
    /\ pc[c] = "goto"
    /\ IF ok THEN Advance(c, "content", "none") ELSE Advance(c, "browserClose", "error")
    /\ UNCHANGED RenderFrame

\* page.content completes; finally runs.
Content(c, ok) ==
    /\ pc[c] = "content"
    /\ Advance(c, "browserClose", IF ok THEN "ok" ELSE "error")
    /\ UNCHANGED RenderFrame

\* browser.close completes; if it throws, the finally block is left.
BrowserClose(c, ok) ==
    /\ pc[c] = "browserClose"
    /\ IF ok THEN Advance(c, "pageClose", pending[c]) ELSE Settle(c, FALSE)
    /\ UNCHANGED RenderFrame

\* page.close completes, then page.removeAllListeners; the function ends the
\* way its try block ended, unless page.close threw.
PageClose(c, ok) ==
    /\ pc[c] = "pageClose"
    /\ Settle(c, ok /\ pending[c] = "ok")
    /\ UNCHANGED RenderFrame

(* --------------------------- fetchProxyList ---------------------------- *)
\* The pool after the try block of fetchProxyList completed normally.
RefreshSucceeded(data) ==
    [list |-> ParseProxyData(data), index |-> 0, time |-> now]

\* A bug: the timestamp is recorded in the finally block.
RefreshFailedStamped ==
    [list |-> proxyList, index |-> currentProxyIndex, time |-> now]
\* The pool after the catch block of fetchProxyList.
RefreshFailed ==
    [list |-> proxyList, index |-> currentProxyIndex, time |-> lastProxyFetchTime]

\* The end of fetchProxyList (finally), then getAxiosInstance goes on to
\* setupAxiosInstanceWithProxy, up to its await.
FinishRefresh(c, pool) ==
    /\ pc[c] = "proxyFetch"
    /\ proxyList' = pool.list
    /\ currentProxyIndex' = pool.index
    /\ lastProxyFetchTime' = pool.time
    /\ isFetchingProxies' = FALSE
    /\ joined' = [d \in Callers |->
                    IF joined[d].st = "pending"
                    THEN [st |-> "done", list |-> pool.list] ELSE joined[d]]
    /\ axiosInstance' = SetupInstance(pool.list, pool.index)
    /\ stack' = [stack EXCEPT ![c] = <<Frame("ipify", axiosInstance')>>]
    /\ pc' = [pc EXCEPT ![c] = "request"]
    /\ UNCHANGED <<now, queueVars, result, renderVars>>

\* axios.get(PROXY_URL) answers with a list.
ProxyFetchOk(c, data) == FinishRefresh(c, RefreshSucceeded(data))

\* axios.get(PROXY_URL) fails, or its answer is no string (split throws).
ProxyFetchError(c) == FinishRefresh(c, RefreshFailed)

\* A tick of the waiter's setInterval that finds the lock free: the wait
\* ends and getAxiosInstance goes on to setupAxiosInstanceWithProxy.
PollInterval(c) ==
    /\ pc[c] = "refreshWait"
    /\ ~isFetchingProxies
    /\ joined' = [joined EXCEPT ![c] = NotJoined]
    /\ axiosInstance' = SetupInstance(proxyList, currentProxyIndex)
    /\ stack' = [stack EXCEPT ![c] = <<Frame("ipify", axiosInstance')>>]
    /\ pc' = [pc EXCEPT ![c] = "request"]
    /\ UNCHANGED <<poolVars, now, queueVars, result, renderVars>>

(* ------------------ axios requests and the interceptor ----------------- *)
Top(st) == st[Len(st)]

\* A request succeeds.  The url request ends the call; the validation
\* request of getAxiosInstance's setup is followed by the url request through
\* the returned axiosInstance; the validation request of a rotation is
\* followed by the interceptor's replay through the returned axiosInstance.
ResponseOk(c) ==
    LET st == stack[c] IN
    /\ UNCHANGED <<poolVars, axiosInstance>>
    /\ IF Len(st) = 1
       THEN IF Top(st).req = "url"
            THEN /\ pc' = [pc EXCEPT ![c] = "returned"]
                 /\ result' = [result EXCEPT ![c] = "ok"]
                 /\ stack' = [stack EXCEPT ![c] = <<>>]
            ELSE /\ stack' = [stack EXCEPT ![c] = <<Frame("url", axiosInstance)>>]
                 /\ UNCHANGED <<pc, result>>
       ELSE /\ stack' = [stack EXCEPT ![c] =
                    Append(SubSeq(st, 1, Len(st) - 2),
                           Replay(st[Len(st) - 1].req, axiosInstance))]
            /\ UNCHANGED <<pc, result>>

\* The interceptor's error handler on a transient error: rotateProxy, then
\* either the replay through a plain instance (index 0) or
\* setupAxiosInstanceWithProxy up to its await.
RotateProxy(c) ==
    LET st == stack[c]
        i  == RotateIndex(currentProxyIndex, Len(proxyList))
    IN
    /\ currentProxyIndex' = i
    /\ IF i = 0
       THEN /\ stack' = [stack EXCEPT ![c] =
                    Append(SubSeq(st, 1, Len(st) - 1), Replay(Top(st).req, PlainInstance))]
            /\ UNCHANGED axiosInstance
       ELSE /\ Len(st) < MaxDepth
            /\ axiosInstance' = SetupInstance(proxyList, i)
            /\ stack' = [stack EXCEPT ![c] = Append(st, Frame("ipify", axiosInstance'))]
    /\ UNCHANGED <<proxyList, lastProxyFetchTime, isFetchingProxies, pc, result>>

\* The error reaches fetchNetwork's catch, which rethrows it.
Reject(c, code) ==
    /\ pc' = [pc EXCEPT ![c] = "returned"]
    /\ result' = [result EXCEPT ![c] = code]
    /\ stack' = [stack EXCEPT ![c] = <<>>]
    /\ UNCHANGED <<poolVars, axiosInstance>>

\* Whether the interceptor of the instance a request went through (if it has
\* one) answers error code `code` by rotating.
Rotates(via, code) == via.icpt /\ IsTransient(code)

\* The request in flight for caller c completes with "ok" or an error code.
Response(c, code) ==
    /\ pc[c] = "request"
    /\ IF code = "ok"
       THEN ResponseOk(c)
       ELSE IF Rotates(Top(stack[c]).via, code) THEN RotateProxy(c) ELSE Reject(c, code)
    /\ UNCHANGED <<now, queueVars, renderVars, joined>>

(* ------------------------------ environment ---------------------------- *)
\* More than the refresh interval passes.
Tick ==
    /\ now < StartTime + MaxTicks * (proxyFetchInterval + 1)
    /\ now' = now + proxyFetchInterval + 1
    /\ UNCHANGED <<poolVars, axiosInstance, queueVars, pc, axiosVars, result,
                   renderVars, joined>>

\* The caller has its answer and may call fetchNetwork again.
Return(c) ==
    /\ pc[c] = "returned"
    /\ pc' = [pc EXCEPT ![c] = "idle"]
    /\ result' = [result EXCEPT ![c] = "none"]
    /\ callbacks' = [callbacks EXCEPT ![c] = NoCallbacks]
    /\ UNCHANGED <<poolVars, axiosInstance, now, queueVars, stack, pending, before,
                   behind, joined>>

\* The steps of the calls with mode "axios" (the transport and the proxy pool).
ProxyNext ==
    \/ \E c \in Clients, useProxy \in BOOLEAN : FetchNetwork(c, "axios", useProxy)
    \/ \E c \in Clients, data \in ProxySourceData : ProxyFetchOk(c, data)
    \/ \E c \in Clients : ProxyFetchError(c)
    \/ \E c \in Clients : PollInterval(c)
    \/ \E c \in Clients, code \in {"ok"} \cup ErrorCodes : Response(c, code)
    \/ \E c \in Clients : Return(c)
    \/ Tick

\* The steps of the calls with mode "puppeteer" (the render queue).
RenderOnceNext ==
    \/ \E c \in Renderers, useProxy \in BOOLEAN : FetchNetwork(c, "puppeteer", useProxy)
    \/ \E c \in Renderers, ok \in BOOLEAN : Launch(c, ok)
    \/ \E c \in Renderers, ok \in BOOLEAN : NewPage(c, ok)
    \/ \E c \in Renderers, ok \in BOOLEAN : Goto(c, ok)
    \/ \E c \in Renderers, ok \in BOOLEAN : Content(c, ok)
    \/ \E c \in Renderers, ok \in BOOLEAN : BrowserClose(c, ok)
    \/ \E c \in Renderers, ok \in BOOLEAN : PageClose(c, ok)

\* The same, with callers that call again after their answer.
RenderNext == RenderOnceNext \/ \E c \in Renderers : Return(c)

Next == ProxyNext \/ RenderNext

\* The whole module: the clients and the renderers together.
Spec == Init /\ [][Next]_vars
\* The proxy pool and the axios transport: the clients alone.
ProxySpec == Init /\ [][ProxyNext]_vars
\* The render queue: the renderers alone.
RenderSpec == Init /\ [][RenderNext]_vars


\* Every started render eventually succeeds or fails: each awaited step of
\* fetchWithPuppeteer completes.
RenderStep(c) ==
    \E ok \in BOOLEAN :
        \/ Launch(c, ok) \/ NewPage(c, ok) \/ Goto(c, ok)
        \/ Content(c, ok) \/ BrowserClose(c, ok) \/ PageClose(c, ok)
\* Every renderer submits at most one task, and started renders complete.
FairRenderSpec ==
    Init /\ [][RenderOnceNext]_vars /\ \A c \in Renderers : WF_vars(RenderStep(c))

(* ============================ the render queue ========================= *)
\* The steps of a render task between its start and its end.
InFlight == {"launch", "newPage", "goto", "content", "browserClose", "pageClose"}
Started == {c \in Callers : pc[c] \in InFlight}
Drained == puppeteerQueue = <<>> /\ activePuppeteerRequests = 0

\* C1: the in-flight counter is within 0..2 and equals the number of render
\* tasks that have been started and have not yet completed.
C1_CounterCountsInFlight ==
    /\ activePuppeteerRequests \in 0..2
    /\ activePuppeteerRequests = Cardinality(Started)
\* Two renders are in flight and a third request waits for one of them.
C1_Witness ==
    /\ activePuppeteerRequests = 2
    /\ Cardinality(Started) = 2
    /\ Cardinality(Waiting) >= 1

\* C2: never more than the ceiling of tasks are active, every queued task is
\* eventually started and completed, and once all the tasks are submitted
\* they all complete, the queue ending empty with the counter at 0.
C2_AllComplete ==
    /\ [](Cardinality(Started) <= MAX_PUPPETEER_REQUESTS)
    /\ \A c \in Renderers : (pc[c] \in {"queued"} \cup InFlight) ~> (pc[c] = "returned")
    /\ (\A c \in Renderers : pc[c] # "idle")
          ~> ((\A c \in Renderers : pc[c] = "returned") /\ Drained)
\* More tasks than the ceiling were submitted and all of them have completed.
C2_Witness ==
    /\ \A c \in Renderers : pc[c] = "returned"
    /\ Cardinality(Renderers) > MAX_PUPPETEER_REQUESTS
    /\ Drained

\* C3: a task is started only when no task that was queued before it still
\* waits: tasks are started in the order of their submission.
C3_FifoStart ==
    [][\A c \in Renderers :
          (pc[c] # "launch" /\ pc'[c] = "launch") =>
              (IF pc[c] = "queued" THEN before[c] ELSE Waiting) = {}]_vars
\* A task was started from the queue while a later one went on waiting.
C3_Witness ==
    \E c \in Renderers, d \in Renderers :
        /\ pc[c] \in InFlight
        /\ d \in behind[c]
        /\ pc[d] = "queued"
        /\ activePuppeteerRequests = MAX_PUPPETEER_REQUESTS

\* C4: exactly one of resolve / reject is called, exactly once, for every
\* render task, a failing task calls reject alone, and a step calls the
\* callbacks of no task but the one that ends in it.
C4_ExactlyOnce ==
    /\ [](\A c \in Renderers :
            /\ pc[c] \in {"idle", "queued"} \cup InFlight => callbacks[c] = NoCallbacks
            /\ pc[c] = "returned" /\ result[c] = "ok" =>
                    callbacks[c] = [resolved |-> 1, rejected |-> 0]
            /\ pc[c] = "returned" /\ result[c] # "ok" =>
                    callbacks[c] = [resolved |-> 0, rejected |-> 1])
    /\ [][\A c \in Renderers :
            callbacks'[c] # callbacks[c] /\ callbacks'[c] # NoCallbacks =>
                pc[c] \in InFlight /\ pc'[c] = "returned"]_vars
\* One task failed and was rejected while another one, resolved, and a third,
\* still in flight, are untouched.
C4_Witness ==
    \E c \in Renderers, d \in Renderers, e \in Renderers :
        /\ pc[c] = "returned" /\ callbacks[c] = [resolved |-> 0, rejected |-> 1]
        /\ pc[d] = "returned" /\ callbacks[d] = [resolved |-> 1, rejected |-> 0]
        /\ pc[e] \in InFlight /\ callbacks[e] = NoCallbacks

(* ============================ the proxy pool =========================== *)
Fetching == {c \in Clients : pc[c] = "proxyFetch"}

\* C5: at most one fetch of the proxy list is in flight, a fetch starts only
\* when none is in flight, and a caller that waited for a fetch goes on only
\* after it finished, without fetching itself, and with the list that fetch
\* left (the list the fetching caller went on with).
C5_SingleFlight ==
    /\ [](Cardinality(Fetching) <= 1)
    /\ [][\A c \in Clients :
            /\ (pc[c] # "proxyFetch" /\ pc'[c] = "proxyFetch") => ~isFetchingProxies
            /\ (pc[c] = "refreshWait" /\ pc'[c] # "refreshWait") =>
                    /\ pc'[c] = "request"
                    /\ ~isFetchingProxies
                    /\ joined[c].st = "done"
                    /\ proxyList = joined[c].list]_vars

\* k calls of rotateProxy, for the index alone.
RECURSIVE RotateTimes(_, _, _)
RotateTimes(k, i, len) == IF k = 0 THEN i ELSE RotateTimes(k - 1, RotateIndex(i, len), len)

\* C6: with N >= 1 proxies, N + 1 rotations bring the index back to where it
\* was, and no smaller positive number of rotations does.
C6_RotationPeriod ==
    LET N == Len(proxyList) IN
    (N >= 1 /\ currentProxyIndex # NaN) =>
        /\ RotateTimes(N + 1, currentProxyIndex, N) = currentProxyIndex
        /\ \A k \in 1..N : RotateTimes(k, currentProxyIndex, N) # currentProxyIndex

\* C7: a transient failure of the url request is answered by one rotation and
\* one replay, whatever useProxy is; a transient failure of the replay is
\* returned as it is, with no second rotation; a replay that succeeds is the
\* answer of the call.
C7_OneRotationOneReplay ==
    [][\A c \in Clients, code \in {"ok"} \cup ErrorCodes :
          (/\ pc[c] = "request"
           /\ Top(stack[c]).req = "url"
           /\ code = "ok" \/ code \in TransientCodes \/ code = NoCode
           /\ Response(c, code)) =>
              IF code = "ok"
              THEN pc'[c] = "returned" /\ result'[c] = "ok"
              ELSE IF Top(stack[c]).replay
              THEN /\ pc'[c] = "returned" /\ result'[c] = code
                   /\ currentProxyIndex' = currentProxyIndex
              ELSE /\ pc'[c] = "request"
                   /\ currentProxyIndex' =
                          (currentProxyIndex + 1) % (Len(proxyList) + 1)]_vars

\* C8: an error whose code is defined and not a transient one is returned to
\* the caller at once: no rotation, no replay, and the proxy list, the index
\* and the refresh timestamp stay as they are.
C8_TerminalPropagates ==
    [][\A c \in Clients, code \in ErrorCodes :
          (code \notin TransientCodes /\ code # NoCode /\ Response(c, code)) =>
              /\ pc'[c] = "returned"
              /\ result'[c] = code
              /\ stack'[c] = <<>>
              /\ UNCHANGED <<proxyList, currentProxyIndex, lastProxyFetchTime>>]_vars
\* A call through a proxy of a pool that was rotated ended with a terminal error.
C8_Witness ==
    \E c \in Clients :
        /\ pc[c] = "returned"
        /\ result[c] = "ERR_BAD_RESPONSE"
        /\ currentProxyIndex > 0
        /\ axiosInstance = ProxiedInstance(ProxyAt(proxyList, currentProxyIndex))

\* C9: a failed fetch of the proxy list leaves the list, the index and the
\* timestamp as they were, clears the lock and does not fail the call; the
\* pool is then still empty or stale, and a call that finds it so (and no
\* fetch in flight) fetches again.
C9_FailedRefreshKeepsPool ==
    [][\A c \in Clients :
          /\ ProxyFetchError(c) =>
                /\ UNCHANGED <<proxyList, currentProxyIndex, lastProxyFetchTime>>
                /\ ~isFetchingProxies'
                /\ pc'[c] = "request" /\ result'[c] = "none"
                /\ NeedsRefresh'
          /\ (FetchNetwork(c, "axios", TRUE) /\ NeedsRefresh /\ ~isFetchingProxies) =>
                pc'[c] = "proxyFetch"]_vars
\* The first refresh failed (the timestamp is still 0): the caller has gone on
\* to the validation request with the pool as it was, empty and stale.
C9_Witness ==
    \E c \in Clients :
        /\ pc[c] = "request"
        /\ stack[c] = <<Frame("ipify", ProxiedInstance(Undefined))>>
        /\ proxyList = <<>>
        /\ currentProxyIndex = 0
        /\ lastProxyFetchTime = 0
        /\ ~isFetchingProxies

\* C10: when the validation request of a rotation that landed on a proxy fails, the failure is
\* returned to the caller and the index stays where that rotation put it: no
\* further rotation follows.
C10_ValidationFailureSurfaces ==
    [][\A c \in Clients, code \in ErrorCodes :
          (/\ pc[c] = "request"
           /\ Len(stack[c]) > 1
           /\ Top(stack[c]).req = "ipify"
           /\ Top(stack[c]).via.proxy # Undefined
           /\ Response(c, code)) =>
              /\ pc'[c] = "returned"
              /\ result'[c] = code
              /\ currentProxyIndex' = currentProxyIndex]_vars

(* ========================= the browser session ========================= *)
\* The browser of c's render task is open from the completion of
\* puppeteer.launch until browser.close has completed.
BrowserOpen(c) == pc[c] \in {"newPage", "goto", "content", "browserClose"}
\* The page of c's render task is open from the completion of browser.newPage
\* (and the page set-up) until page.close has completed.
PageOpen(c) == pc[c] \in {"goto", "content", "browserClose", "pageClose"}
\* The step calls resolve or reject of c's render task.
CallbackFires(c) == callbacks'[c] # callbacks[c] /\ callbacks'[c] # NoCallbacks

\* C11: the callback of a render task fires only when the browser and the
\* page of the task are released: in the step that calls resolve or reject
\* the browser is not open, and a page that is open is the one whose close
\* completes in that very step.
C11_ReleasedBeforeCallback ==
    [][\A c \in Renderers :
          CallbackFires(c) =>
              /\ ~BrowserOpen(c)
              /\ PageOpen(c) => PageClose(c, TRUE) \/ PageClose(c, FALSE)]_vars

\* C12: the selected index is an integer within [0, len], len being the length
\* of the proxy list.
C12_IndexInRange == currentProxyIndex \in 0..Len(proxyList)

\* C13: a call with useProxy = true performs at most len + 1 rotations: the
\* rotations of one call whose interceptor is still waiting (one for each
\* request above the first of the call) are never more than len + 1.
C13_RotationsBounded ==
    \A c \in Clients : Len(stack[c]) - 1 <= Len(proxyList) + 1

(* ===================== the transport and the index ===================== *)
\* The request in flight for c is the validation request of getAxiosInstance's
\* setupAxiosInstanceWithProxy, sent through a proxy of the list.
ValidatingCurrent(c) ==
    /\ pc[c] = "request"
    /\ Len(stack[c]) = 1
    /\ Top(stack[c]).req = "ipify"
    /\ Top(stack[c]).via.proxy # Undefined
\* The step is getAxiosInstance(true) reaching setupAxiosInstanceWithProxy.
Current(c) ==
    /\ pc[c] \in {"idle", "proxyFetch", "refreshWait"}
    /\ pc'[c] = "request"
    /\ Top(stack'[c]).req = "ipify"
\* The step is a call of rotateProxy by the interceptor, for caller c.
Rotation(c) ==
    \E code \in ErrorCodes : Rotates(Top(stack[c]).via, code) /\ Response(c, code)

\* C14: index 0 is the no-proxy slot and index k > 0 selects the k-th proxy of
\* the list, for current() as for rotate(): the transport either of them
\* hands out is direct exactly when the index is 0, and is otherwise the one
\* of the k-th proxy.
C14_SameSlotMeaning ==
    [][\A c \in Clients :
          (/\ proxyList' # <<>>
           /\ Current(c) \/ (pc[c] = "request" /\ Rotation(c))) =>
              LET t == Top(stack'[c]).via IN
              /\ t.direct <=> currentProxyIndex' = 0
              /\ ~t.direct => t.proxy = ProxyAt(proxyList', currentProxyIndex' - 1)]_vars

\* C15: rotateProxy never runs on the proxies of the list while a refresh of
\* the list is in flight.
C15_NoRotationDuringRefresh ==
    [][\A c \in Clients :
          (pc[c] = "request" /\ proxyList # <<>> /\ Rotation(c)) => ~isFetchingProxies]_vars

\* C16: current() does not advance the index: neither the step that builds the
\* transport for the selected proxy without a refresh nor the completion of
\* its validation request, successful or not, changes the index.
C16_CurrentKeepsIndex ==
    [][\A c \in Clients :
          /\ (Current(c) /\ pc[c] # "proxyFetch") =>
                currentProxyIndex' = currentProxyIndex
          /\ \A code \in {"ok"} \cup ErrorCodes :
                (ValidatingCurrent(c) /\ Response(c, code)) =>
                    currentProxyIndex' = currentProxyIndex]_vars

\* C19: the transport a caller gets from setupAxiosInstanceWithProxy is the
\* one it built and validated: when a validation request succeeds, the
\* request that follows goes through the instance the validation went through.
C19_ReturnsValidatedInstance ==
    [][\A c \in Clients :
          (/\ pc[c] = "request"
           /\ Top(stack[c]).req = "ipify"
           /\ Top(stack[c]).via.proxy # Undefined
           /\ Response(c, "ok")) =>
              Top(stack'[c]).via = Top(stack[c]).via]_vars

(* ========================= waiting for a refresh ======================= *)
\* The awaited network operations of a call complete: the fetch of the proxy
\* list and the request in flight.
ClientStep(c) ==
    \/ \E data \in ProxySourceData : ProxyFetchOk(c, data)
    \/ ProxyFetchError(c)
    \/ \E code \in {"ok"} \cup ErrorCodes : Response(c, code)
\* The timer of a waiter keeps firing, and a firing that finds the lock free
\* ends the wait; network operations complete.  A firing that finds the lock
\* taken changes nothing, so the wait is only weakly fair.
FairProxySpec ==
    /\ Init /\ [][ProxyNext]_vars
    /\ \A c \in Clients : WF_vars(PollInterval(c)) /\ WF_vars(ClientStep(c))

\* C17: a caller that waits for a refresh in flight eventually resumes, and
\* resumes without fetching the list itself.
C17_WaiterResumes ==
    /\ \A c \in Clients : (pc[c] = "refreshWait") ~> (pc[c] # "refreshWait")
    /\ [][\A c \in Clients :
            (pc[c] = "refreshWait" /\ pc'[c] # "refreshWait") => pc'[c] = "request"]_vars

(* ========================= work conservation =========================== *)
\* C18: between steps, a render task waits in the queue only while both
\* slots are taken: a non-empty queue means exactly 2 active tasks.
C18_WorkConserving ==
    Len(puppeteerQueue) > 0 => activePuppeteerRequests = 2
\* A task has ended, its slot was given to the head of the queue, and
\* another task is still waiting.
C18_Witness ==
    /\ Len(puppeteerQueue) > 0
    /\ activePuppeteerRequests = 2
    /\ \E c \in Renderers, d \in Renderers :
          /\ pc[c] = "returned"
          /\ pc[d] \in InFlight
          /\ behind[d] # {}

(* ================== calls that do not use the proxy pool =============== *)
\* One caller that uses the proxy pool, the other axios callers with
\* useProxy = false only, and one render caller.
PoolClients == {NumClients}
DirectClients == Clients \ PoolClients
OneRenderer == {NumClients + 1}
MixedNext ==
    \/ \E c \in PoolClients : FetchNetwork(c, "axios", TRUE)
    \/ \E c \in Clients : FetchNetwork(c, "axios", FALSE)
    \/ \E c \in PoolClients : ClientStep(c)
    \/ \E c \in DirectClients : ClientStep(c)
    \/ \E c \in Clients : Return(c)
    \/ \E c \in OneRenderer, useProxy \in BOOLEAN : FetchNetwork(c, "puppeteer", useProxy)
    \/ \E c \in OneRenderer : RenderStep(c)
    \/ \E c \in OneRenderer : Return(c)
MixedSpec == Init /\ [][MixedNext]_vars

\* The request in flight for c is the url request of a call with
\* useProxy = false: getAxiosInstance(false) alone sends the first request of
\* a call through an instance without proxy.
DirectRequest(c) == pc[c] = "request" /\ stack[c] = <<Frame("url", PlainInstance)>>
\* A step of a call with mode "axios" and useProxy = false.
DirectStep(c) ==
    \/ FetchNetwork(c, "axios", FALSE)
    \/ DirectRequest(c) /\ \E code \in {"ok"} \cup ErrorCodes : Response(c, code)
\* A step of a call with mode "puppeteer".
RenderCallStep(c) ==
    \/ \E useProxy \in BOOLEAN : FetchNetwork(c, "puppeteer", useProxy)
    \/ RenderStep(c)

\* C20: no step of a call with useProxy = false and no step of a render call
\* changes the proxy list, the index, the refresh timestamp or the lock.
C20_PoolUntouched ==
    [][((\E c \in Clients : DirectStep(c)) \/ (\E c \in Renderers : RenderCallStep(c)))
          => UNCHANGED poolVars]_vars
\* While the pool holds proxies and was rotated, a call with useProxy = false
\* has failed with a transient error and a render call has failed.
C20_Witness ==
    /\ proxyList # <<>>
    /\ currentProxyIndex > 0
    /\ \E c \in DirectClients : pc[c] = "returned" /\ result[c] = "ETIMEDOUT"
    /\ \E r \in Renderers : pc[r] = "returned" /\ result[r] = "error"

====
